---- MODULE Spec2Model ----
(***************************************************************************)
(* AP_Proximity_RPLidarA2: the RPLIDAR A2 proximity driver.                *)
(*                                                                         *)
(* The driver object is the record drv; its fields carry the names of the  *)
(* C++ members (leading underscore dropped).  Bytes are 0..255.  Angles    *)
(* are kept in the payload's angle_q6 unit (1/64 degree) and distances in  *)
(* the distance_q2 unit (1/4000 m): angle_q6/64.0f is exact in a float and *)
(* distance_q2/4000.0f is strictly monotonic on 0..65535, so every float   *)
(* comparison of the code is the same comparison on these integers.        *)
(*                                                                         *)
(* The members that the constructor does not set start at zero: ArduPilot  *)
(* allocates every backend with its zero-filling operator new.             *)
(***************************************************************************)
EXTENDS Integers, Sequences, FiniteSets, TLC

VARIABLES
    drv,      \* the AP_Proximity_RPLidarA2 object (with its backend base)
    rx,       \* bytes buffered by the UART driver, not yet read
    now,      \* AP_HAL::millis()
    pc,       \* position of the host's call of update()
    nbytes,   \* get_readings(): bytes still to read in this call
    ticks,    \* how often the clock has advanced
    hist      \* history: what has been ingested so far (no code reads it)

vars == <<drv, rx, now, pc, nbytes, ticks, hist>>

\* ------------------------------------------------------------- constants

RPLIDAR_PREAMBLE == 165
RPLIDAR_CMD_SCAN == 32
RPLIDAR_CMD_RESET == 64
RPLIDAR_CMD_GET_DEVICE_HEALTH == 82
DESCRIPTOR_SYNC == 90
COMM_ACTIVITY_TIMEOUT_MS == 200
RESYNC_TIMEOUT == 5000
SYSTEMINFO_MAX == 62
DESCRIPTOR_SIZE == 7
SCAN_PAYLOAD_SIZE == 5
HEALTH_PAYLOAD_SIZE == 3
RESETTED_RETRY_MAX == 5
UNKNOWN_RETRY_MAX == 10
PROXIMITY_SECTORS_MAX == 8

rp_unknown == "rp_unknown"
rp_resetted == "rp_resetted"
rp_responding == "rp_responding"
rp_measurements == "rp_measurements"
rp_health == "rp_health"

ResponseType_Descriptor == "ResponseType_Descriptor"
ResponseType_SCAN == "ResponseType_SCAN"
ResponseType_Health == "ResponseType_Health"

Proximity_NotConnected == "Proximity_NotConnected"
Proximity_NoData == "Proximity_NoData"
Proximity_Good == "Proximity_Good"

\* Thresholds of the code in the integer units of the payload.
Q6 == 64
DISTANCE_MIN_Q2 == 800
FRONT_RANGE_Q2 == 2000
FAR_SENTINEL == 133

ScanDescriptor == <<165, 90, 5, 0, 0, 64, 129>>
HealthDescriptor == <<165, 90, 3, 0, 0, 0, 6>>

\* ------------------------------------------------------- bit fields

\* struct PACKED _sensor_scan laid over the five payload bytes (little endian,
\* bit fields allocated from the least significant bit).
startbit(p) == p[0] % 2
not_startbit(p) == (p[0] \div 2) % 2
quality(p) == p[0] \div 4
\* A variant that takes the check bit from the top of byte 1.
checkbitTop(p) == (p[1] \div 128) % 2

checkbit(p) == p[1] % 2
angle_q6(p) == (p[1] \div 2) + 128 * p[2]
distance_q2(p) == p[3] + 256 * p[4]

\* The validity test of parse_response_data.
\* A variant of the validity test that ignores the check bit.
ScanValidNoCheck(p) == startbit(p) = 1 - not_startbit(p)

ScanValid(p) == (startbit(p) = 1 - not_startbit(p)) /\ checkbit(p) = 1

\* ------------------------------------------------------- sector table

SectorIdx == 0 .. (PROXIMITY_SECTORS_MAX - 1)

\* AP_Proximity_Backend's defaults: eight sectors of 45 degrees.
DefaultMiddleDeg == [i \in SectorIdx |-> IF i < 8 THEN 45 * i ELSE 0]
DefaultWidthDeg == [i \in SectorIdx |-> IF i < 8 THEN 45 ELSE 0]

\* fabsf(wrap_180(middle - angle)), in 1/64 degree.
AngleDiff(middle_deg, a) ==
    LET d == (middle_deg * Q6 - a) % (360 * Q6)
    IN IF d > 180 * Q6 THEN 360 * Q6 - d ELSE d

\* convert_angle_to_sector: the sector whose middle angle is nearest to the
\* angle (the lowest index on a tie); -1 when there is no sector.
convert_angle_to_sector(s, a) ==
    LET used == {i \in SectorIdx : i < s.num_sectors}
        best == {i \in used : \A j \in used :
                    AngleDiff(s.sector_middle_deg[i], a) <= AngleDiff(s.sector_middle_deg[j], a)}
    IN IF used = {} THEN -1 ELSE CHOOSE i \in best : \A j \in best : i <= j

\* ------------------------------------------------------- events

\* The branch of get_readings() that the last processed byte took, and for a
\* decoded sample its sector and the sector it committed (-1: none).
NoEvent == [kind |-> "none", sector |-> -1, commit |-> -1]
Event(k) == [kind |-> k, sector |-> -1, commit |-> -1]

\* ------------------------------------------------------- commands

\* A variant of reset_rplidar() that also clears the decoder's counters.
reset_rplidarClearsDecoder(s, t) ==
    [s EXCEPT !.tx = @ \o <<RPLIDAR_PREAMBLE, RPLIDAR_CMD_RESET>>,
              !.resetted = TRUE,
              !.last_reset_ms = t,
              !.rp_state = rp_resetted,
              !.sync_error = 0,
              !.byte_count = 0]

\* reset_rplidar()
reset_rplidar(s, t) ==
    [s EXCEPT !.tx = @ \o <<RPLIDAR_PREAMBLE, RPLIDAR_CMD_RESET>>,
              !.resetted = TRUE,
              !.last_reset_ms = t,
              !.rp_state = rp_resetted]

\* set_scan_mode()
set_scan_mode(s, t) ==
    [s EXCEPT !.tx = @ \o <<RPLIDAR_PREAMBLE, RPLIDAR_CMD_SCAN>>,
              !.last_request_ms = t,
              !.rp_state = rp_responding]

\* ------------------------------------------------------- descriptor

IsScanDescriptor(d) ==
    d[2] = 5 /\ d[3] = 0 /\ d[4] = 0 /\ d[5] = 64 /\ d[6] = 129

IsHealthDescriptor(d) ==
    d[2] = 3 /\ d[3] = 0 /\ d[4] = 0 /\ d[5] = 0 /\ d[6] = 6

\* parse_response_descriptor()
parse_response_descriptor(s, t) ==
    IF s.descriptor[0] = RPLIDAR_PREAMBLE /\ s.descriptor[1] = DESCRIPTOR_SYNC
    THEN LET s1 == IF IsScanDescriptor(s.descriptor)
                   THEN [s EXCEPT !.payload_length = SCAN_PAYLOAD_SIZE,
                                  !.response_type = ResponseType_SCAN,
                                  !.last_distance_received_ms = t,
                                  !.rp_state = rp_measurements]
                   ELSE s
             s2 == IF IsHealthDescriptor(s.descriptor)
                   THEN [s1 EXCEPT !.payload_length = HEALTH_PAYLOAD_SIZE,
                                   !.response_type = ResponseType_Health,
                                   !.last_distance_received_ms = t,
                                   !.rp_state = rp_health]
                   ELSE s1
         IN s2
    ELSE [s EXCEPT !.rp_state = rp_unknown]

\* ------------------------------------------------------- measurement

\* Front sweep window of parse_response_data (lines 528-629).  The lateral
\* offsets L_left_front/L_right_front and the avoid_* outputs are float
\* trigonometry on the two rays; the model keeps the rays and records only
\* whether distance_object_front holds the far sentinel or an estimate.  The
\* two offsets are taken to differ exactly when the two rays differ.
\* A variant that takes every ray of the window as the first-hit ray.
FrontEstimatorOverwritesFirst(s, a, d) ==
    IF a >= 270 * Q6 /\ a <= 360 * Q6
    THEN IF d >= FRONT_RANGE_Q2
         THEN [s EXCEPT !.angle_left_front = a,
                        !.distant_left_front = d,
                        !.point_front_find = 1,
                        !.angle_right_front = a,
                        !.distant_right_front = d]
         ELSE s
    ELSE IF a < 60 * Q6
         THEN IF s.point_front_find # 0
              THEN IF <<s.angle_left_front, s.distant_left_front>>
                        # <<s.angle_right_front, s.distant_right_front>>
                   THEN [s EXCEPT !.distance_object_front = "estimate"]
                   ELSE s
              ELSE [s EXCEPT !.distance_object_front = FAR_SENTINEL]
         ELSE [s EXCEPT !.point_front_find = 0]

FrontEstimator(s, a, d) ==
    IF a >= 270 * Q6 /\ a <= 360 * Q6
    THEN IF d >= FRONT_RANGE_Q2
         THEN LET s1 == IF s.point_front_find = 0
                        THEN [s EXCEPT !.angle_left_front = a,
                                       !.distant_left_front = d,
                                       !.point_front_find = 1]
                        ELSE s
              IN [s1 EXCEPT !.angle_right_front = a, !.distant_right_front = d]
         ELSE s
    ELSE IF a < 60 * Q6
         THEN IF s.point_front_find # 0
              THEN IF <<s.angle_left_front, s.distant_left_front>>
                        # <<s.angle_right_front, s.distant_right_front>>
                   THEN [s EXCEPT !.distance_object_front = "estimate"]
                   ELSE s
              ELSE [s EXCEPT !.distance_object_front = FAR_SENTINEL]
         ELSE [s EXCEPT !.point_front_find = 0]

\* Back sweep window of parse_response_data (lines 634-726).
BackEstimator(s, a, d) ==
    IF a >= 90 * Q6 /\ a <= 180 * Q6
    THEN IF d >= FRONT_RANGE_Q2
         THEN LET s1 == IF s.point_back_find = 0
                        THEN [s EXCEPT !.angle_right_back = a,
                                       !.distant_right_back = d,
                                       !.point_back_find = 1]
                        ELSE s
              IN [s1 EXCEPT !.angle_left_back = a, !.distant_left_back = d]
         ELSE s
    ELSE IF a > 180 * Q6
         THEN IF s.point_back_find # 0
              THEN IF <<s.angle_left_back, s.distant_left_back>>
                        # <<s.angle_right_back, s.distant_right_back>>
                   THEN [s EXCEPT !.distance_object_back = "estimate"]
                   ELSE s
              ELSE [s EXCEPT !.distance_object_back = FAR_SENTINEL]
         ELSE [s EXCEPT !.point_back_find = 0]

\* The sector update of parse_response_data (lines 745-769).
\* distance_m > distance_min()
\* A variant without the dead zone.
InRangeNoDeadZone(d) == d > 0

InRange(d) == d > DISTANCE_MIN_Q2

\* A variant that writes the incoming sample to the entry of the sector it opens.
AggregateWritesOpened(s, a, d, t) ==
    LET s0 == [s EXCEPT !.last_distance_received_ms = t]
        sector == convert_angle_to_sector(s, a)
    IN IF sector = -1 THEN [s0 EXCEPT !.ev = Event("scan_ok")]
       ELSE IF InRange(d)
       THEN IF s.last_sector = sector
            THEN IF s.distance_m_last > d
                 THEN [s0 EXCEPT !.distance_m_last = d,
                                 !.angle_deg_last = a,
                                 !.ev = [kind |-> "scan_ok", sector |-> sector, commit |-> -1]]
                 ELSE [s0 EXCEPT !.ev = [kind |-> "scan_ok", sector |-> sector, commit |-> -1]]
            ELSE [s0 EXCEPT !.angle[sector] = a,
                            !.distance[sector] = d,
                            !.distance_valid[sector] = TRUE,
                            !.last_sector = sector,
                            !.distance_m_last = d,
                            !.angle_deg_last = a,
                            !.ev = [kind |-> "scan_ok", sector |-> sector,
                                    commit |-> s.last_sector]]
       ELSE [s0 EXCEPT !.distance_valid[sector] = FALSE,
                       !.ev = [kind |-> "scan_ok", sector |-> sector, commit |-> -1]]

Aggregate(s, a, d, t) ==
    LET s0 == [s EXCEPT !.last_distance_received_ms = t]
        sector == convert_angle_to_sector(s, a)
    IN IF sector = -1 THEN [s0 EXCEPT !.ev = Event("scan_ok")]
       ELSE IF InRange(d)
       THEN IF s.last_sector = sector
            THEN IF s.distance_m_last > d
                 THEN [s0 EXCEPT !.distance_m_last = d,
                                 !.angle_deg_last = a,
                                 !.ev = [kind |-> "scan_ok", sector |-> sector, commit |-> -1]]
                 ELSE [s0 EXCEPT !.ev = [kind |-> "scan_ok", sector |-> sector, commit |-> -1]]
            ELSE \* a new sector started, the previous one can be updated now
                 [s0 EXCEPT !.angle[s.last_sector] = s.angle_deg_last,
                            !.distance[s.last_sector] = s.distance_m_last,
                            !.distance_valid[s.last_sector] = TRUE,
                            !.last_sector = sector,
                            !.distance_m_last = d,
                            !.angle_deg_last = a,
                            !.ev = [kind |-> "scan_ok", sector |-> sector,
                                    commit |-> s.last_sector]]
       ELSE [s0 EXCEPT !.distance_valid[sector] = FALSE,
                       !.ev = [kind |-> "scan_ok", sector |-> sector, commit |-> -1]]

\* parse_response_data()
parse_response_data(s, t) ==
    IF s.response_type = ResponseType_SCAN
    THEN IF ScanValid(s.payload)
         THEN LET a == angle_q6(s.payload)
                  d == distance_q2(s.payload)
              IN Aggregate(BackEstimator(FrontEstimator(s, a, d), a, d), a, d, t)
         ELSE \* not valid payload packet
              [s EXCEPT !.sync_error = (@ + 1) % 256, !.ev = Event("scan_bad")]
    ELSE IF s.response_type = ResponseType_Health
    THEN [s EXCEPT !.ev = Event("health")]
    ELSE s

\* ------------------------------------------------------- byte dispatch

\* A variant of case rp_resetted that stores a 63rd device-info byte.
CaseResettedStores63(s, c, t) ==
    IF (c = RPLIDAR_CMD_GET_DEVICE_HEALTH \/ s.information_data) /\ s.byte_count < SYSTEMINFO_MAX + 1
    THEN [s EXCEPT !.information_data = (c = RPLIDAR_CMD_GET_DEVICE_HEALTH) \/ @,
                   !.rp_systeminfo[s.byte_count] = c,
                   !.byte_count = @ + 1,
                   !.ev = Event("info")]
    ELSE IF s.information_data
    THEN set_scan_mode([s EXCEPT !.information_data = FALSE, !.byte_count = 0,
                                 !.ev = Event("info_done")], t)
    ELSE IF s.cnt > RESETTED_RETRY_MAX
    THEN [s EXCEPT !.rp_state = rp_unknown, !.cnt = 0, !.ev = Event("retry_exhausted")]
    ELSE [s EXCEPT !.cnt = (@ + 1) % 256, !.ev = Event("retry")]

\* A variant of case rp_resetted that asks for scan mode when the retries run out.
CaseResettedScanOnExhaustion(s, c, t) ==
    IF (c = RPLIDAR_CMD_GET_DEVICE_HEALTH \/ s.information_data) /\ s.byte_count < SYSTEMINFO_MAX
    THEN [s EXCEPT !.information_data = (c = RPLIDAR_CMD_GET_DEVICE_HEALTH) \/ @,
                   !.rp_systeminfo[s.byte_count] = c,
                   !.byte_count = @ + 1,
                   !.ev = Event("info")]
    ELSE IF s.information_data
    THEN set_scan_mode([s EXCEPT !.information_data = FALSE, !.byte_count = 0,
                                 !.ev = Event("info_done")], t)
    ELSE IF s.cnt > RESETTED_RETRY_MAX
    THEN set_scan_mode([s EXCEPT !.cnt = 0, !.ev = Event("retry_exhausted")], t)
    ELSE [s EXCEPT !.cnt = (@ + 1) % 256, !.ev = Event("retry")]

\* get_readings(), case rp_resetted
CaseResetted(s, c, t) ==
    IF (c = RPLIDAR_CMD_GET_DEVICE_HEALTH \/ s.information_data) /\ s.byte_count < SYSTEMINFO_MAX
    THEN [s EXCEPT !.information_data = (c = RPLIDAR_CMD_GET_DEVICE_HEALTH) \/ @,
                   !.rp_systeminfo[s.byte_count] = c,
                   !.byte_count = @ + 1,
                   !.ev = Event("info")]
    ELSE IF s.information_data
    THEN set_scan_mode([s EXCEPT !.information_data = FALSE, !.byte_count = 0,
                                 !.ev = Event("info_done")], t)
    ELSE IF s.cnt > RESETTED_RETRY_MAX
    THEN [s EXCEPT !.rp_state = rp_unknown, !.cnt = 0, !.ev = Event("retry_exhausted")]
    ELSE [s EXCEPT !.cnt = (@ + 1) % 256, !.ev = Event("retry")]

\* A variant of case rp_responding that keeps the byte count after a descriptor.
CaseRespondingKeepsCount(s, c, t) ==
    IF c = RPLIDAR_PREAMBLE \/ s.descriptor_data
    THEN LET s1 == [s EXCEPT !.descriptor_data = TRUE,
                             !.descriptor[s.byte_count] = c,
                             !.byte_count = @ + 1]
         IN IF s1.byte_count = DESCRIPTOR_SIZE
            THEN parse_response_descriptor(
                      [s1 EXCEPT !.response_type = ResponseType_Descriptor,
                                 !.ev = Event("descriptor")], t)
            ELSE [s1 EXCEPT !.ev = Event("descriptor_byte")]
    ELSE [s EXCEPT !.rp_state = rp_unknown, !.ev = Event("not_descriptor")]

\* get_readings(), case rp_responding
CaseResponding(s, c, t) ==
    IF c = RPLIDAR_PREAMBLE \/ s.descriptor_data
    THEN LET s1 == [s EXCEPT !.descriptor_data = TRUE,
                             !.descriptor[s.byte_count] = c,
                             !.byte_count = @ + 1]
         IN IF s1.byte_count = DESCRIPTOR_SIZE
            THEN [parse_response_descriptor(
                      [s1 EXCEPT !.response_type = ResponseType_Descriptor,
                                 !.ev = Event("descriptor")], t)
                    EXCEPT !.byte_count = 0]
            ELSE [s1 EXCEPT !.ev = Event("descriptor_byte")]
    ELSE [s EXCEPT !.rp_state = rp_unknown, !.ev = Event("not_descriptor")]

\* get_readings(), case rp_measurements
\* (c & 0x03) == 0x01: the first byte of a revolution
\* A variant that looks at the start bit only.
IsRevolutionStartBit0(c) == c % 2 = 1

IsRevolutionStart(c) == c % 4 = 1

\* A variant of case rp_measurements that resets at the timeout, not after it.
CaseMeasurementsResetAtTimeout(s, c, t) ==
    IF s.sync_error # 0 /\ ~IsRevolutionStart(c)
    THEN IF t - s.last_distance_received_ms >= RESYNC_TIMEOUT
         THEN reset_rplidar([s EXCEPT !.ev = Event("resync_timeout")], t)
         ELSE [s EXCEPT !.ev = Event("out_of_sync")]
    ELSE LET s1 == [s EXCEPT !.sync_error = 0,
                             !.payload[s.byte_count] = c,
                             !.byte_count = @ + 1,
                             !.ev = Event(IF s.sync_error # 0 THEN "resync"
                                          ELSE "payload_byte")]
         IN IF s1.byte_count = s1.payload_length
            THEN [parse_response_data(s1, t) EXCEPT !.byte_count = 0]
            ELSE s1

\* A variant of case rp_measurements that stores the byte also when out of sync.
CaseMeasurementsStoresOutOfSync(s, c, t) ==
    LET s1 == [s EXCEPT !.sync_error = IF IsRevolutionStart(c) THEN 0 ELSE @,
                        !.payload[s.byte_count] = c,
                        !.byte_count = @ + 1,
                        !.ev = Event(IF s.sync_error # 0 THEN "resync"
                                     ELSE "payload_byte")]
    IN IF s1.byte_count = s1.payload_length
       THEN [parse_response_data(s1, t) EXCEPT !.byte_count = 0]
       ELSE s1

CaseMeasurements(s, c, t) ==
    IF s.sync_error # 0 /\ ~IsRevolutionStart(c)
    THEN \* out of sync, and not the start of a revolution
         IF t - s.last_distance_received_ms > RESYNC_TIMEOUT
         THEN reset_rplidar([s EXCEPT !.ev = Event("resync_timeout")], t)
         ELSE [s EXCEPT !.ev = Event("out_of_sync")]
    ELSE LET s1 == [s EXCEPT !.sync_error = 0,
                             !.payload[s.byte_count] = c,
                             !.byte_count = @ + 1,
                             !.ev = Event(IF s.sync_error # 0 THEN "resync"
                                          ELSE "payload_byte")]
         IN IF s1.byte_count = s1.payload_length
            THEN [parse_response_data(s1, t) EXCEPT !.byte_count = 0]
            ELSE s1

\* A variant of case rp_health that collects the health payload and decodes it.
CaseHealthStoresPayload(s, c, t) ==
    LET s1 == [s EXCEPT !.payload[s.byte_count] = c,
                        !.byte_count = @ + 1,
                        !.ev = Event("payload_byte")]
    IN IF s1.byte_count = s1.payload_length
       THEN [parse_response_data(s1, t) EXCEPT !.byte_count = 0, !.rp_state = rp_responding]
       ELSE s1

\* get_readings(), case rp_health
CaseHealth(s, c, t) == [s EXCEPT !.ev = Event("health_state")]

\* A variant of case rp_unknown without the "goto STATE": the preamble byte
\* only switches the state.
CaseUnknownDropsPreamble(s, c, t) ==
    IF c = RPLIDAR_PREAMBLE
    THEN [s EXCEPT !.rp_state = rp_responding, !.ev = Event("unknown")]
    ELSE LET s1 == [s EXCEPT !.cnt = (@ + 1) % 256, !.ev = Event("unknown")]
         IN IF s1.cnt > UNKNOWN_RETRY_MAX
            THEN [reset_rplidar(s1, t) EXCEPT !.rp_state = rp_resetted, !.cnt = 0]
            ELSE s1

\* A variant of case rp_unknown that keeps counting after the reset.
CaseUnknownKeepsCount(s, c, t) ==
    IF c = RPLIDAR_PREAMBLE
    THEN CaseResponding([s EXCEPT !.rp_state = rp_responding, !.dispatches = @ + 1], c, t)
    ELSE LET s1 == [s EXCEPT !.cnt = (@ + 1) % 256, !.ev = Event("unknown")]
         IN IF s1.cnt > UNKNOWN_RETRY_MAX
            THEN [reset_rplidar(s1, t) EXCEPT !.rp_state = rp_resetted]
            ELSE s1

\* A variant of case rp_unknown that dispatches the byte again after the reset.
CaseUnknownRedispatchesReset(s, c, t) ==
    IF c = RPLIDAR_PREAMBLE
    THEN CaseResponding([s EXCEPT !.rp_state = rp_responding, !.dispatches = @ + 1], c, t)
    ELSE LET s1 == [s EXCEPT !.cnt = (@ + 1) % 256, !.ev = Event("unknown")]
         IN IF s1.cnt > UNKNOWN_RETRY_MAX
            THEN CaseResetted([reset_rplidar(s1, t) EXCEPT !.rp_state = rp_resetted, !.cnt = 0,
                                                           !.dispatches = @ + 1], c, t)
            ELSE s1

\* A variant of case rp_unknown that asks for scan mode instead of resetting.
CaseUnknownRequestsScan(s, c, t) ==
    IF c = RPLIDAR_PREAMBLE
    THEN CaseResponding([s EXCEPT !.rp_state = rp_responding, !.dispatches = @ + 1], c, t)
    ELSE LET s1 == [s EXCEPT !.cnt = (@ + 1) % 256, !.ev = Event("unknown")]
         IN IF s1.cnt > UNKNOWN_RETRY_MAX
            THEN [set_scan_mode(s1, t) EXCEPT !.cnt = 0]
            ELSE s1

\* get_readings(), case rp_unknown; "goto STATE" dispatches the same byte again
CaseUnknown(s, c, t) ==
    IF c = RPLIDAR_PREAMBLE
    THEN CaseResponding([s EXCEPT !.rp_state = rp_responding, !.dispatches = @ + 1], c, t)
    ELSE LET s1 == [s EXCEPT !.cnt = (@ + 1) % 256, !.ev = Event("unknown")]
         IN IF s1.cnt > UNKNOWN_RETRY_MAX
            THEN [reset_rplidar(s1, t) EXCEPT !.rp_state = rp_resetted, !.cnt = 0]
            ELSE s1

\* The body of the while loop of get_readings() for one byte c read at time t.
ProcessByte(s, c, t) ==
    LET s0 == [s EXCEPT !.tx = <<>>, !.ev = NoEvent, !.dispatches = 1]
    IN CASE s0.rp_state = rp_resetted -> CaseResetted(s0, c, t)
         [] s0.rp_state = rp_responding -> CaseResponding(s0, c, t)
         [] s0.rp_state = rp_measurements -> CaseMeasurements(s0, c, t)
         [] s0.rp_state = rp_health -> CaseHealth(s0, c, t)
         [] s0.rp_state = rp_unknown -> CaseUnknown(s0, c, t)

\* ------------------------------------------------------- initialisation

\* Start and end of a blind spot, in whole degrees (int16_t of a wrap_360 float).
IgnoreStart(b) == ((2 * b.angle - b.width) \div 2) % 360
IgnoreEnd(b) == ((2 * b.angle + b.width) \div 2) % 360

\* get_next_ignore_start_or_end: the closest start (0) or end (1) of a blind
\* spot at or after the angle from.
get_next_ignore_start_or_end(areas, start_or_end, from) ==
    LET edge(b) == IF start_or_end = 0 THEN IgnoreStart(b) ELSE IgnoreEnd(b)
        diff(b) == (edge(b) - from) % 360
        idx == CHOOSE i \in 1 .. Len(areas) :
                   \A j \in 1 .. Len(areas) :
                       diff(areas[i]) < diff(areas[j]) \/ (diff(areas[i]) = diff(areas[j]) /\ i <= j)
    IN edge(areas[idx])

\* A variant of the while loop of init_sectors without the halving branch.
RECURSIVE FillArcNoHalving(_, _, _)
FillArcNoHalving(r, start_angle, degrees_to_fill) ==
    IF degrees_to_fill > 0 /\ r.sector < PROXIMITY_SECTORS_MAX
    THEN LET sector_size == IF degrees_to_fill >= 90 THEN 45
                            ELSE degrees_to_fill
         IN FillArcNoHalving(
                    [middle |-> [r.middle EXCEPT ![r.sector] =
                                    ((2 * start_angle + sector_size) \div 2) % 360],
                     width |-> [r.width EXCEPT ![r.sector] = sector_size],
                     sector |-> r.sector + 1,
                     arc |-> r.arc,
                     steps |-> Append(r.steps, [arc |-> r.arc, sector |-> r.sector,
                                                start |-> start_angle,
                                                remaining |-> degrees_to_fill,
                                                size |-> sector_size])],
                    start_angle + sector_size,
                    degrees_to_fill - sector_size)
    ELSE r

\* A variant of the while loop of init_sectors that does not move start_angle on.
RECURSIVE FillArcStartNotAdvanced(_, _, _)
FillArcStartNotAdvanced(r, start_angle, degrees_to_fill) ==
    IF degrees_to_fill > 0 /\ r.sector < PROXIMITY_SECTORS_MAX
    THEN LET sector_size == IF degrees_to_fill >= 90 THEN 45
                            ELSE IF degrees_to_fill > 45 THEN degrees_to_fill \div 2
                            ELSE degrees_to_fill
         IN FillArcStartNotAdvanced(
                    [middle |-> [r.middle EXCEPT ![r.sector] =
                                    ((2 * start_angle + sector_size) \div 2) % 360],
                     width |-> [r.width EXCEPT ![r.sector] = sector_size],
                     sector |-> r.sector + 1,
                     arc |-> r.arc,
                     steps |-> Append(r.steps, [arc |-> r.arc, sector |-> r.sector,
                                                start |-> start_angle,
                                                remaining |-> degrees_to_fill,
                                                size |-> sector_size])],
                    start_angle,
                    degrees_to_fill - sector_size)
    ELSE r

\* A variant of the while loop of init_sectors without the test of the sector count.
RECURSIVE FillArcNoSectorLimit(_, _, _)
FillArcNoSectorLimit(r, start_angle, degrees_to_fill) ==
    IF degrees_to_fill > 0
    THEN LET sector_size == IF degrees_to_fill >= 90 THEN 45
                            ELSE IF degrees_to_fill > 45 THEN degrees_to_fill \div 2
                            ELSE degrees_to_fill
         IN FillArcNoSectorLimit(
                    [middle |-> [r.middle EXCEPT ![r.sector] =
                                    ((2 * start_angle + sector_size) \div 2) % 360],
                     width |-> [r.width EXCEPT ![r.sector] = sector_size],
                     sector |-> r.sector + 1,
                     arc |-> r.arc,
                     steps |-> Append(r.steps, [arc |-> r.arc, sector |-> r.sector,
                                                start |-> start_angle,
                                                remaining |-> degrees_to_fill,
                                                size |-> sector_size])],
                    start_angle + sector_size,
                    degrees_to_fill - sector_size)
    ELSE r

\* A variant of the while loop of init_sectors that rounds the half up.
RECURSIVE FillArcHalfRoundedUp(_, _, _)
FillArcHalfRoundedUp(r, start_angle, degrees_to_fill) ==
    IF degrees_to_fill > 0 /\ r.sector < PROXIMITY_SECTORS_MAX
    THEN LET sector_size == IF degrees_to_fill >= 90 THEN 45
                            ELSE IF degrees_to_fill > 45 THEN (degrees_to_fill + 1) \div 2
                            ELSE degrees_to_fill
         IN FillArcHalfRoundedUp(
                    [middle |-> [r.middle EXCEPT ![r.sector] =
                                    ((2 * start_angle + sector_size) \div 2) % 360],
                     width |-> [r.width EXCEPT ![r.sector] = sector_size],
                     sector |-> r.sector + 1,
                     arc |-> r.arc,
                     steps |-> Append(r.steps, [arc |-> r.arc, sector |-> r.sector,
                                                start |-> start_angle,
                                                remaining |-> degrees_to_fill,
                                                size |-> sector_size])],
                    start_angle + sector_size,
                    degrees_to_fill - sector_size)
    ELSE r

\* The while loop of init_sectors (lines 242-266): r = [middle, width, sector]
\* and, for the record, the iterations made so far: the blind spot whose arc is
\* being filled, start_angle and degrees_to_fill on entry, and sector_size.
RECURSIVE FillArc(_, _, _)
FillArc(r, start_angle, degrees_to_fill) ==
    IF degrees_to_fill > 0 /\ r.sector < PROXIMITY_SECTORS_MAX
    THEN LET sector_size == IF degrees_to_fill >= 90 THEN 45
                            ELSE IF degrees_to_fill > 45 THEN degrees_to_fill \div 2
                            ELSE degrees_to_fill
         IN FillArc([middle |-> [r.middle EXCEPT ![r.sector] =
                                    ((2 * start_angle + sector_size) \div 2) % 360],
                     width |-> [r.width EXCEPT ![r.sector] = sector_size],
                     sector |-> r.sector + 1,
                     arc |-> r.arc,
                     steps |-> Append(r.steps, [arc |-> r.arc, sector |-> r.sector,
                                                start |-> start_angle,
                                                remaining |-> degrees_to_fill,
                                                size |-> sector_size])],
                    start_angle + sector_size,
                    degrees_to_fill - sector_size)
    ELSE r

\* The for loop of init_sectors (lines 225-268) from blind spot i on.
RECURSIVE FillAreas(_, _, _)
FillAreas(r, areas, i) ==
    IF i > Len(areas) THEN r
    ELSE LET start_angle == get_next_ignore_start_or_end(areas, 1, areas[i].angle)
             end_angle == get_next_ignore_start_or_end(areas, 0, start_angle)
             degrees_to_fill == (end_angle - start_angle) % 360
         IN FillAreas(FillArc([r EXCEPT !.arc = i], start_angle, degrees_to_fill),
                      areas, i + 1)

\* init_sectors()
init_sectors(s) ==
    IF Len(s.ignore_area) = 0
    THEN [s EXCEPT !.sector_initialised = TRUE]
    ELSE LET r == FillAreas([middle |-> s.sector_middle_deg,
                             width |-> s.sector_width_deg,
                             sector |-> 0, arc |-> 0, steps |-> <<>>],
                            s.ignore_area, 1)
         IN [s EXCEPT !.sector_middle_deg = r.middle,
                      !.sector_width_deg = r.width,
                      !.num_sectors = r.sector,
                      !.sector_steps = r.steps,
                      !.sector_initialised = TRUE]

\* A variant of initialise() that partitions and resets in one call.
initialiseAtOnce(s, t) ==
    IF ~s.sector_initialised
    THEN [obj |-> reset_rplidar(init_sectors(s), t), ret |-> TRUE]
    ELSE IF ~s.initialised
    THEN [obj |-> reset_rplidar(s, t), ret |-> TRUE]
    ELSE [obj |-> s, ret |-> TRUE]

\* initialise(): the object after the call, and the value returned
initialise(s, t) ==
    IF ~s.sector_initialised
    THEN [obj |-> init_sectors(s), ret |-> FALSE]
    ELSE IF ~s.initialised
    THEN [obj |-> reset_rplidar(s, t), ret |-> TRUE]
    ELSE [obj |-> s, ret |-> TRUE]

\* The timeout check at the end of update() (lines 121-129).
StatusAt(s, t) ==
    IF s.last_distance_received_ms = 0
       \/ t - s.last_distance_received_ms > COMM_ACTIVITY_TIMEOUT_MS
    THEN Proximity_NoData
    ELSE Proximity_Good

\* ------------------------------------------------------- history

\* Progress of a byte stream "scan descriptor, then well-formed scan payloads"
\* that began while the decoder was in rp_responding with no byte buffered:
\* 0 = no such stream, 1..6 = descriptor bytes seen, 7 = descriptor complete,
\* 8..11 = 1..4 bytes into a payload, 12 = a payload complete.
WellFormedAt(pos, c) ==
    CASE pos = 0 -> c % 4 \in {1, 2}
      [] pos = 1 -> c % 2 = 1
      [] OTHER -> TRUE

NextStream(st, s, c) ==
    IF st \in 1 .. 6 /\ c = ScanDescriptor[st + 1] THEN st + 1
    ELSE IF st \in {7, 12} /\ WellFormedAt(0, c) THEN 8
    ELSE IF st \in 8 .. 11 /\ WellFormedAt(st - 7, c) THEN st + 1
    ELSE IF s.rp_state = rp_responding /\ s.byte_count = 0 /\ c = RPLIDAR_PREAMBLE THEN 1
    ELSE 0

\* The in-range samples ingested for the open sector since it was opened.
NextDwell(dw, s, s2) ==
    IF s2.ev.kind = "scan_ok" /\ s2.ev.sector # -1
       /\ distance_q2(s2.payload) > DISTANCE_MIN_Q2
    THEN IF s.last_sector = s2.ev.sector
         THEN dw \cup {<<distance_q2(s2.payload), angle_q6(s2.payload)>>}
         ELSE {<<distance_q2(s2.payload), angle_q6(s2.payload)>>}
    ELSE dw

\* Non-preamble bytes consumed in rp_unknown since the last reset command,
\* the byte that issues a reset command being the last one counted.
NextUnknownBytes(n, s, c, s2) ==
    IF s.rp_state = rp_unknown /\ c # RPLIDAR_PREAMBLE THEN n + 1
    ELSE IF s.rp_state = rp_resetted \/ s2.tx = <<RPLIDAR_PREAMBLE, RPLIDAR_CMD_RESET>> THEN 0
    ELSE n

\* The opcodes of the last two commands written to the UART, oldest first.
NextCmds(q, tx) ==
    IF tx = <<>> THEN q
    ELSE LET q2 == Append(q, tx[2])
         IN IF Len(q2) > 2 THEN Tail(q2) ELSE q2

NextHist(h, s, c, s2, t) ==
    [stream |-> NextStream(h.stream, s, c),
     dwell |-> NextDwell(h.dwell, s, s2),
     last_ok |-> IF s2.ev.kind = "scan_ok" THEN t ELSE h.last_ok,
     unknown_bytes |-> NextUnknownBytes(h.unknown_bytes, s, c, s2),
     cmds |-> NextCmds(h.cmds, s2.tx)]

\* ------------------------------------------------------- the system

StartMillis == 1000
MaxTicks == 1
TickSet == {300, 5000, 5200}

InfoBlock == [i \in 1 .. 63 |-> IF i = 1 THEN 82 ELSE 32]
BadSyncDescriptor == <<165, 0, 5, 0, 0, 64, 129>>
UnknownDescriptor == <<165, 90, 20, 0, 0, 0, 4>>

\* A scan payload: start flag, angle 2*deg2 degrees (+1/64), distance 256*d4.
Sample(start, deg2, d4) == <<IF start THEN 1 ELSE 2, 3, deg2, 0, d4>>
BadStartSample == <<0, 3, 6, 0, 4>>
BadCheckSample == <<2, 130, 6, 0, 4>>

\* What the device sends in the protocol runs: every frame kind, few samples.
Frames ==
    {InfoBlock, ScanDescriptor, HealthDescriptor, BadSyncDescriptor,
     UnknownDescriptor, BadStartSample, Sample(TRUE, 6, 8), Sample(FALSE, 24, 4)}

\* What the device sends in the aggregation runs: a scan stream of samples in
\* two sectors, in range (256*4, 256*8) and in the dead zone (256*2).
ScanFrames ==
    {ScanDescriptor, BadStartSample, BadCheckSample,
     Sample(TRUE, 6, 8), Sample(FALSE, 6, 4), Sample(FALSE, 6, 2),
     Sample(FALSE, 24, 4), Sample(FALSE, 24, 2)}

\* What the device sends in the timed runs.
TimedFrames ==
    {ScanDescriptor, UnknownDescriptor, BadStartSample, Sample(FALSE, 24, 4)}

\* The object after construction.
InitDrv ==
          [initialised |-> FALSE, sector_initialised |-> FALSE, resetted |-> FALSE,
              rp_state |-> rp_unknown, response_type |-> ResponseType_Descriptor,
              byte_count |-> 0, cnt |-> 0, sync_error |-> 0,
              descriptor_data |-> FALSE, information_data |-> FALSE,
              payload_length |-> 0,
              descriptor |-> [i \in 0 .. 6 |-> 0],
              payload |-> [i \in 0 .. 4 |-> 0],
              rp_systeminfo |-> [i \in 0 .. 62 |-> 0],
              last_distance_received_ms |-> 0, last_reset_ms |-> 0, last_request_ms |-> 0,
              last_sector |-> 0, angle_deg_last |-> 0, distance_m_last |-> 0,
              angle |-> [i \in SectorIdx |-> 0],
              distance |-> [i \in SectorIdx |-> 0],
              distance_valid |-> [i \in SectorIdx |-> FALSE],
              num_sectors |-> 8,
              sector_middle_deg |-> DefaultMiddleDeg,
              sector_width_deg |-> DefaultWidthDeg,
              ignore_area |-> <<>>,
              point_front_find |-> 0, angle_left_front |-> 0, distant_left_front |-> 0,
              angle_right_front |-> 0, distant_right_front |-> 0,
              distance_object_front |-> 0,
              point_back_find |-> 0, angle_left_back |-> 0, distant_left_back |-> 0,
              angle_right_back |-> 0, distant_right_back |-> 0,
              distance_object_back |-> 0,
              status |-> Proximity_NotConnected,
              sector_steps |-> <<>>,
              tx |-> <<>>, ev |-> NoEvent, dispatches |-> 0]

Init ==
    /\ drv = InitDrv
    /\ rx = <<>>
    /\ now = StartMillis
    /\ pc = "idle"
    /\ nbytes = 0
    /\ ticks = 0
    /\ hist = [stream |-> 0, dwell |-> {}, last_ok |-> -1, unknown_bytes |-> 0,
               cmds |-> <<>>]

\* The device puts a frame on the wire between two polls.
DeviceSend(menu) ==
    /\ pc = "idle"
    /\ rx = <<>>
    /\ \E f \in menu : rx' = f
    /\ UNCHANGED <<drv, now, pc, nbytes, ticks, hist>>

\* Time passes between two polls.
Tick ==
    /\ pc = "idle"
    /\ ticks < MaxTicks
    /\ ticks' = ticks + 1
    /\ \E d \in TickSet : now' = now + d
    /\ UNCHANGED <<drv, rx, pc, nbytes, hist>>

\* update() up to the start of the read loop (lines 102-119, 334).
UpdateBegin ==
    /\ pc = "idle"
    /\ LET r == IF ~drv.initialised
                THEN initialise([drv EXCEPT !.tx = <<>>], now)
                ELSE [obj |-> drv, ret |-> TRUE]
           s1 == [r.obj EXCEPT !.initialised = r.ret]
       IN /\ drv' = s1
          /\ nbytes' = IF s1.initialised THEN Len(rx) ELSE 0
          /\ hist' = [hist EXCEPT !.cmds = NextCmds(@, IF drv.initialised THEN <<>> ELSE s1.tx)]
    /\ pc' = "reading"
    /\ UNCHANGED <<rx, now, ticks>>

\* One iteration of the read loop (lines 336-459).
ReadByte ==
    /\ pc = "reading"
    /\ nbytes > 0
    /\ drv' = ProcessByte(drv, Head(rx), now)
    /\ hist' = NextHist(hist, drv, Head(rx), drv', now)
    /\ rx' = Tail(rx)
    /\ nbytes' = nbytes - 1
    /\ UNCHANGED <<now, pc, ticks>>

\* The end of update(): the health status (lines 121-129).
UpdateEnd ==
    /\ pc = "reading"
    /\ nbytes = 0
    /\ drv' = [drv EXCEPT !.status = StatusAt(drv, now)]
    /\ pc' = "idle"
    /\ UNCHANGED <<rx, now, nbytes, ticks, hist>>

\* The protocol runs: every frame kind, the clock standing still.
Next == DeviceSend(Frames) \/ UpdateBegin \/ ReadByte \/ UpdateEnd

Spec == Init /\ [][Next]_vars

\* The aggregation runs: a scan stream, the clock standing still.
NextScan == DeviceSend(ScanFrames) \/ UpdateBegin \/ ReadByte \/ UpdateEnd

SpecScan == Init /\ [][NextScan]_vars

\* The timed runs: a scan stream with time passing between polls.
NextTimed == DeviceSend(TimedFrames) \/ Tick \/ UpdateBegin \/ ReadByte \/ UpdateEnd

SpecTimed == Init /\ [][NextTimed]_vars

\* The sweep runs: a scan stream of samples at the edges of the front window
\* (270 and 360 degrees, the first at exactly 0.5 m), inside it but nearer than
\* 0.5 m (300 degrees), at and just below 60 degrees, and above 360 degrees.
Ray270 == <<2, 1, 135, 208, 7>>
Ray360 == <<2, 1, 180, 0, 8>>
Near300 == <<2, 1, 150, 0, 4>>
At60 == <<2, 1, 30, 0, 8>>
Below60 == <<2, 255, 29, 0, 8>>
Above360 == <<2, 1, 190, 0, 8>>

FrontFrames ==
    {ScanDescriptor, BadStartSample, Ray270, Ray360, Near300, At60, Below60, Above360}

\* The device puts one more frame of the sweep on the wire, a millisecond on.
MaxSweepFrames == 7

SweepSend ==
    /\ pc = "idle"
    /\ rx = <<>>
    /\ ticks < MaxSweepFrames
    /\ ticks' = ticks + 1
    /\ now' = now + 1
    /\ \E f \in FrontFrames : rx' = f
    /\ UNCHANGED <<drv, pc, nbytes, hist>>

NextFront == SweepSend \/ UpdateBegin \/ ReadByte \/ UpdateEnd

SpecFront == Init /\ [][NextFront]_vars

\* The health runs: scan and health descriptors and a sample, with the clock
\* advancing in steps of 100 ms between polls.
MaxHealthTicks == 3

HealthFrames == {ScanDescriptor, HealthDescriptor, Sample(FALSE, 24, 4)}

HealthTick ==
    /\ pc = "idle"
    /\ ticks < MaxHealthTicks
    /\ ticks' = ticks + 1
    /\ now' = now + 100
    /\ UNCHANGED <<drv, rx, pc, nbytes, hist>>

NextHealth == DeviceSend(HealthFrames) \/ HealthTick \/ UpdateBegin \/ ReadByte \/ UpdateEnd

SpecHealth == Init /\ [][NextHealth]_vars

\* The partitioning runs: the driver is constructed with a blind-spot
\* configuration and update() is called with nothing on the UART.
MaxIgnoreWidth == 359
MaxIgnoreAreas == 3

BlindSpot(a, w) == [angle |-> a, width |-> w]

\* One blind spot of every width, at three places of the circle.
SingleSpots == {<<BlindSpot(a, w)>> : a \in {0, 100, 350}, w \in 1 .. MaxIgnoreWidth}

\* Several blind spots, apart, overlapping or the same.
BaseSpots == {BlindSpot(a, w) : a \in {0, 120, 240}, w \in {10, 100}}
SeveralSpots == UNION {[1 .. n -> BaseSpots] : n \in 2 .. MaxIgnoreAreas}

IgnoreConfigs == SingleSpots \cup SeveralSpots

InitSectors ==
    /\ \E cfg \in IgnoreConfigs : drv = [InitDrv EXCEPT !.ignore_area = cfg]
    /\ rx = <<>>
    /\ now = StartMillis
    /\ pc = "idle"
    /\ nbytes = 0
    /\ ticks = 0
    /\ hist = [stream |-> 0, dwell |-> {}, last_ok |-> -1, unknown_bytes |-> 0,
               cmds |-> <<>>]

NextSectors == UpdateBegin \/ UpdateEnd

SpecSectors == InitSectors /\ [][NextSectors]_vars

\* ------------------------------------------------------- properties

\* A step of the read loop: one byte, Head(rx), is taken off the UART.
ReadStep == pc = "reading" /\ nbytes > 0 /\ nbytes' = nbytes - 1

\* The byte completes a payload (no resynchronisation pending), and the payload.
CompletesPayload ==
    /\ drv.rp_state = rp_measurements
    /\ drv.response_type = ResponseType_SCAN
    /\ drv.sync_error = 0
    /\ drv.byte_count + 1 = drv.payload_length
CompletedPayload == [drv.payload EXCEPT ![drv.byte_count] = Head(rx)]

\* The byte completes a descriptor, and the descriptor as a byte sequence.
CompletesDescriptor ==
    /\ drv.rp_state = rp_responding
    /\ (Head(rx) = RPLIDAR_PREAMBLE \/ drv.descriptor_data)
    /\ drv.byte_count + 1 = DESCRIPTOR_SIZE
CompletedDescriptor ==
    [i \in 1 .. DESCRIPTOR_SIZE |-> IF i - 1 = drv.byte_count THEN Head(rx) ELSE drv.descriptor[i - 1]]

CommittedUnchanged ==
    /\ drv'.angle = drv.angle
    /\ drv'.distance = drv.distance
    /\ drv'.distance_valid = drv.distance_valid

OpenSectorUnchanged ==
    /\ drv'.last_sector = drv.last_sector
    /\ drv'.distance_m_last = drv.distance_m_last
    /\ drv'.angle_deg_last = drv.angle_deg_last

ResetCommand == <<RPLIDAR_PREAMBLE, RPLIDAR_CMD_RESET>>
ScanCommand == <<RPLIDAR_PREAMBLE, RPLIDAR_CMD_SCAN>>

\* C1: a scan descriptor followed by well-formed scan payloads, starting in
\* rp_responding with no byte buffered, puts the decoder in rp_measurements on
\* the 7th byte and is then decoded payload by payload: the decoder's byte
\* counter follows the position in the payload and the 5th byte of each
\* payload, and no other byte, is a successful decode.
C1_DescriptorThenPayloads ==
    /\ hist.stream = 7 =>
           drv.rp_state = rp_measurements /\ drv.byte_count = 0
    /\ hist.stream \in 8 .. 11 =>
           /\ drv.rp_state = rp_measurements
           /\ drv.byte_count = hist.stream - 7
           /\ drv.ev.kind \notin {"scan_ok", "scan_bad"}
    /\ hist.stream = 12 =>
           /\ drv.rp_state = rp_measurements
           /\ drv.byte_count = 0
           /\ drv.ev.kind = "scan_ok"

\* C2: decoding a completed scan payload with startBit = notStartBit or
\* checkBit = 0 changes no committed sector entry, keeps the open sector and
\* its candidate, and raises the sync-error count by exactly one.
C2_RejectedPayload ==
    [][(/\ ReadStep /\ CompletesPayload
        /\ \/ startbit(CompletedPayload) = not_startbit(CompletedPayload)
           \/ checkbit(CompletedPayload) = 0)
       =>
           /\ CommittedUnchanged
           /\ OpenSectorUnchanged
           /\ drv'.sync_error = drv.sync_error + 1]_vars

C2_Witness ==
    /\ drv.ev.kind = "scan_bad"
    /\ drv.sync_error = 1
    /\ \E i \in SectorIdx : drv.distance_valid[i] /\ drv.distance[i] > DISTANCE_MIN_Q2
    /\ drv.distance_m_last > DISTANCE_MIN_Q2

\* The least distance of a dwell.
MinDistance(dw) == CHOOSE d \in {x[1] : x \in dw} : \A y \in dw : d <= y[1]

\* C3: whenever an in-range sample maps to a sector other than the open one,
\* the sector that was open is committed, and only it: its distance is the
\* least distance of the in-range samples of its dwell, its angle is the angle
\* of such a sample, and it is valid.  (The first dwell after startup included.)
C3_CommitOnSectorChange ==
    [][(/\ ReadStep /\ CompletesPayload /\ ScanValid(CompletedPayload)
        /\ InRange(distance_q2(CompletedPayload))
        /\ convert_angle_to_sector(drv, angle_q6(CompletedPayload)) \notin {-1, drv.last_sector})
       =>
           /\ hist.dwell # {}
           /\ drv'.distance[drv.last_sector] = MinDistance(hist.dwell)
           /\ <<drv'.distance[drv.last_sector], drv'.angle[drv.last_sector]>> \in hist.dwell
           /\ drv'.distance_valid[drv.last_sector]
           /\ \A i \in SectorIdx \ {drv.last_sector} :
                  /\ drv'.distance[i] = drv.distance[i]
                  /\ drv'.angle[i] = drv.angle[i]
                  /\ drv'.distance_valid[i] = drv.distance_valid[i]]_vars

\* C4: a valid sample in the dead zone (distance <= distance_min) that maps to
\* sector s clears s's valid flag and does nothing else to the sectors: no
\* committed distance or angle changes, and the open sector and its candidate
\* stay, whether or not s is the open sector.
C4_DeadZoneSample ==
    [][(/\ ReadStep /\ CompletesPayload /\ ScanValid(CompletedPayload)
        /\ distance_q2(CompletedPayload) <= DISTANCE_MIN_Q2
        /\ convert_angle_to_sector(drv, angle_q6(CompletedPayload)) # -1)
       =>
           LET sec == convert_angle_to_sector(drv, angle_q6(CompletedPayload))
           IN /\ drv'.distance_valid = [drv.distance_valid EXCEPT ![sec] = FALSE]
              /\ drv'.distance = drv.distance
              /\ drv'.angle = drv.angle
              /\ OpenSectorUnchanged]_vars

\* A dead-zone sample has just been ingested for a sector that is not the open
\* one and that had been committed before.
C4_Witness ==
    /\ drv.ev.kind = "scan_ok"
    /\ distance_q2(drv.payload) <= DISTANCE_MIN_Q2
    /\ drv.ev.sector # -1
    /\ drv.ev.sector # drv.last_sector
    /\ drv.distance[drv.ev.sector] > DISTANCE_MIN_Q2
    /\ ~drv.distance_valid[drv.ev.sector]

\* C5: at the end of update(), if no scan measurement was decoded in the last
\* 200 ms (or ever), the status is NoData.
C5_NoDataWithoutMeasurement ==
    [][(pc = "reading" /\ pc' = "idle"
        /\ (hist.last_ok = -1 \/ now - hist.last_ok > COMM_ACTIVITY_TIMEOUT_MS))
       => drv'.status = Proximity_NoData]_vars

\* C6: in rp_measurements with the sync-error flag set, a byte whose low two
\* bits are not 01 leaves the payload byte counter and the payload buffer as
\* they are; a byte whose low two bits are 01 clears the flag and is stored as
\* payload byte 0, the byte counter becoming 1.
C6_ResyncOnRevolutionStart ==
    [][(ReadStep /\ drv.rp_state = rp_measurements /\ drv.sync_error # 0)
       =>
           IF Head(rx) % 4 = 1
           THEN /\ drv'.sync_error = 0
                /\ drv'.payload = [drv.payload EXCEPT ![0] = Head(rx)]
                /\ drv'.byte_count = 1
                /\ drv'.rp_state = rp_measurements
           ELSE /\ drv'.sync_error = drv.sync_error
                /\ drv'.payload = drv.payload
                /\ drv'.byte_count = drv.byte_count]_vars

\* A revolution-start byte has just ended a resynchronisation.
C6_Witness ==
    /\ drv.ev.kind = "resync"
    /\ drv.rp_state = rp_measurements
    /\ drv.sync_error = 0
    /\ drv.byte_count = 1
    /\ drv.payload[0] % 4 = 1

\* C7: every completed descriptor that is neither the scan template nor the
\* health template leaves the decoder in rp_unknown.
C7_UnmatchedDescriptorToUnknown ==
    [][(/\ ReadStep /\ CompletesDescriptor
        /\ CompletedDescriptor \notin {ScanDescriptor, HealthDescriptor})
       => drv'.rp_state = rp_unknown]_vars

\* C8: in rp_unknown the preamble byte moves the decoder to rp_responding and
\* is dispatched a second time there without another read: it is stored as
\* descriptor byte 0, the byte counter becomes 1, and exactly that one byte
\* leaves the UART.
C8_PreambleRedispatched ==
    [][(ReadStep /\ drv.rp_state = rp_unknown /\ Head(rx) = RPLIDAR_PREAMBLE)
       =>
           /\ drv'.rp_state = rp_responding
           /\ drv'.descriptor = [drv.descriptor EXCEPT ![0] = RPLIDAR_PREAMBLE]
           /\ drv'.byte_count = 1
           /\ drv'.dispatches = 2
           /\ rx' = Tail(rx)]_vars

\* The preamble byte was taken in rp_unknown and stored by rp_responding.
C8_Witness ==
    /\ drv.dispatches = 2
    /\ drv.rp_state = rp_responding
    /\ drv.byte_count = 1
    /\ drv.descriptor[0] = RPLIDAR_PREAMBLE
    /\ drv.descriptor_data

\* C9: in rp_unknown a non-preamble byte raises the retry counter; the byte
\* that takes it above 10 sends the reset command, zeroes the counter and
\* enters rp_resetted; and no more than 11 non-preamble bytes are consumed in
\* rp_unknown without a reset command.
C9_UnknownRetryBound ==
    /\ [](hist.unknown_bytes <= UNKNOWN_RETRY_MAX + 1)
    /\ [][(ReadStep /\ drv.rp_state = rp_unknown /\ Head(rx) # RPLIDAR_PREAMBLE)
          =>
              IF drv.cnt + 1 > UNKNOWN_RETRY_MAX
              THEN /\ drv'.tx = ResetCommand
                   /\ drv'.cnt = 0
                   /\ drv'.rp_state = rp_resetted
              ELSE /\ drv'.tx = <<>>
                   /\ drv'.cnt = drv.cnt + 1
                   /\ drv'.rp_state = rp_unknown]_vars

\* The 11th non-preamble byte in rp_unknown has just issued the reset command.
C9_Witness ==
    /\ drv.ev.kind = "unknown"
    /\ hist.unknown_bytes = UNKNOWN_RETRY_MAX + 1
    /\ drv.tx = ResetCommand
    /\ drv.rp_state = rp_resetted
    /\ drv.cnt = 0

\* A byte arrives in rp_resetted outside a device-info block and is not the
\* tag 0x52.
RetryStep ==
    /\ ReadStep
    /\ drv.rp_state = rp_resetted
    /\ ~drv.information_data
    /\ Head(rx) # RPLIDAR_CMD_GET_DEVICE_HEALTH

\* C10 as stated: in rp_resetted, when the tag 0x52 has not appeared after the
\* retry count of bytes, the decoder sends the scan-mode request and goes to
\* rp_responding.
C10_ScanRequestOnExhaustion ==
    [][(RetryStep /\ drv.cnt > RESETTED_RETRY_MAX)
       => drv'.tx = ScanCommand /\ drv'.rp_state = rp_responding]_vars

\* C10: in rp_resetted, outside a device-info block, a byte other than 0x52
\* raises the retry counter while it is at most 5; the byte that finds it above
\* 5 zeroes it and moves the decoder to rp_unknown, and no command is sent.
\* The scan-mode request is sent from rp_resetted only by the byte that ends a
\* device-info block, which moves the decoder to rp_responding.
C10_UnknownOnExhaustion ==
    [][/\ RetryStep =>
              /\ drv'.tx = <<>>
              /\ IF drv.cnt > RESETTED_RETRY_MAX
                 THEN drv'.rp_state = rp_unknown /\ drv'.cnt = 0
                 ELSE drv'.rp_state = rp_resetted /\ drv'.cnt = drv.cnt + 1
       /\ (ReadStep /\ drv.rp_state = rp_resetted /\ drv'.tx # <<>>) =>
              /\ drv.information_data
              /\ drv'.tx = ScanCommand
              /\ drv'.rp_state = rp_responding
              /\ ~drv'.information_data]_vars

\* The retries have just run out: the decoder is in rp_unknown, nothing sent.
C10_Witness ==
    /\ drv.ev.kind = "retry_exhausted"
    /\ drv.rp_state = rp_unknown
    /\ drv.cnt = 0
    /\ drv.tx = <<>>

\* C11: in rp_resetted the byte 0x52 and the bytes after it are stored as
\* device info from index 0 on, at most 62 of them; the byte that arrives when
\* 62 are stored sends the scan-mode request, clears the byte counter and the
\* device-info flag, and moves the decoder to rp_responding.
C11_DeviceInfoBlock ==
    /\ [](drv.rp_state = rp_resetted =>
              /\ drv.byte_count <= SYSTEMINFO_MAX
              /\ ~drv.information_data => drv.byte_count = 0)
    /\ [][(/\ ReadStep /\ drv.rp_state = rp_resetted
           /\ (Head(rx) = RPLIDAR_CMD_GET_DEVICE_HEALTH \/ drv.information_data))
          =>
              IF drv.byte_count < 62
              THEN /\ drv'.information_data
                   /\ drv'.rp_systeminfo = [drv.rp_systeminfo EXCEPT ![drv.byte_count] = Head(rx)]
                   /\ drv'.byte_count = drv.byte_count + 1
                   /\ drv'.rp_state = rp_resetted
                   /\ drv'.tx = <<>>
              ELSE /\ drv'.tx = ScanCommand
                   /\ drv'.byte_count = 0
                   /\ ~drv'.information_data
                   /\ drv'.rp_state = rp_responding
                   /\ drv'.rp_systeminfo = drv.rp_systeminfo]_vars

\* A device-info block of 62 bytes has just ended with the scan-mode request.
C11_Witness ==
    /\ drv.ev.kind = "info_done"
    /\ drv.tx = ScanCommand
    /\ drv.rp_state = rp_responding
    /\ drv.byte_count = 0
    /\ ~drv.information_data
    /\ drv.rp_systeminfo[0] = RPLIDAR_CMD_GET_DEVICE_HEALTH
    /\ drv.rp_systeminfo[61] = 32

\* C12: in rp_measurements with the sync-error flag set, a byte whose low two
\* bits are not 01 and that arrives more than 5000 ms after the timestamp of
\* the last receive sends the reset command and moves the decoder to
\* rp_resetted; arriving within 5000 ms it changes nothing of the decoder and
\* nothing is sent.
C12_ResyncTimeout ==
    [][(/\ ReadStep /\ drv.rp_state = rp_measurements
        /\ drv.sync_error # 0 /\ Head(rx) % 4 # 1)
       =>
           IF now - drv.last_distance_received_ms > 5000
           THEN /\ drv'.tx = ResetCommand
                /\ drv'.rp_state = rp_resetted
           ELSE drv' = [drv EXCEPT !.tx = <<>>, !.dispatches = 1,
                                   !.ev = Event("out_of_sync")]]_vars

\* The resynchronisation has just timed out: reset sent, decoder in rp_resetted.
C12_Witness ==
    /\ drv.ev.kind = "resync_timeout"
    /\ drv.tx = ResetCommand
    /\ drv.rp_state = rp_resetted
    /\ drv.sync_error # 0
    /\ now - drv.last_distance_received_ms > 5000

\* C13: after a health descriptor the bytes are accumulated in groups of
\* payload_length = 3, and the health branch of parse_response_data runs on
\* the third byte of each group.
C13_HealthPayloadAccumulated ==
    [][(ReadStep /\ drv.rp_state = rp_health /\ drv.payload_length = HEALTH_PAYLOAD_SIZE)
       =>
           /\ drv'.rp_state = rp_health
           /\ drv'.payload = [drv.payload EXCEPT ![drv.byte_count] = Head(rx)]
           /\ IF drv.byte_count + 1 = drv.payload_length
              THEN drv'.byte_count = 0 /\ drv'.ev.kind = "health"
              ELSE drv'.byte_count = drv.byte_count + 1]_vars

\* The sectors have been partitioned from a blind-spot configuration.
Partitioned == drv.sector_initialised /\ Len(drv.ignore_area) > 0

\* C14: after partitioning with a non-empty blind-spot configuration every
\* sector below the sector count is between 1 and 45 degrees wide.
C14_SectorWidthCap ==
    Partitioned =>
        \A i \in SectorIdx :
            i < drv.num_sectors =>
                drv.sector_width_deg[i] >= 1 /\ drv.sector_width_deg[i] <= 45

\* Partitioned into sectors among which a full 45-degree one and a narrower one.
C14_Witness ==
    /\ Partitioned
    /\ drv.num_sectors >= 2
    /\ \E i, j \in SectorIdx :
           /\ i < drv.num_sectors /\ j < drv.num_sectors
           /\ drv.sector_width_deg[i] = 45
           /\ drv.sector_width_deg[j] < 45

\* The widths of the sectors 0 .. i-1 added up.
RECURSIVE WidthSum(_, _)
WidthSum(w, i) == IF i = 0 THEN 0 ELSE WidthSum(w, i - 1) + w[i - 1]

C16_SectorCountCap ==
    /\ pc = "reading" => drv.sector_initialised
    /\ drv.num_sectors <= PROXIMITY_SECTORS_MAX
    /\ Len(drv.sector_steps) <= PROXIMITY_SECTORS_MAX
    /\ \A k \in 1 .. Len(drv.sector_steps) :
           /\ drv.sector_steps[k].sector = k - 1
           /\ drv.sector_steps[k].sector < PROXIMITY_SECTORS_MAX
    /\ Partitioned => drv.num_sectors = Len(drv.sector_steps)

\* Three blind spots ask for nine sectors: eight are made, and the last one
\* leaves a part of its arc without a sector.
C16_Witness ==
    /\ Partitioned
    /\ Len(drv.ignore_area) = 3
    /\ drv.num_sectors = PROXIMITY_SECTORS_MAX
    /\ LET last == drv.sector_steps[PROXIMITY_SECTORS_MAX]
       IN last.remaining > last.size

\* The sample is accepted and opens a sector: its fields become the candidate.
OpensSector ==
    /\ drv'.ev.kind = "scan_ok"
    /\ drv'.ev.sector # -1
    /\ drv'.ev.commit # -1

\* C17 as stated: the validity test reads bits 0 and 1 of byte 0 and bit 7 of
\* byte 1, the angle is the low 7 bits of byte 1 with byte 2 above them, and
\* the distance is bytes 3-4, little-endian.
C17_CheckBitIsBit7 ==
    [][(ReadStep /\ CompletesPayload) =>
           LET p == CompletedPayload
           IN /\ drv'.ev.kind = "scan_ok" <=>
                     (p[0] % 2 # (p[0] \div 2) % 2 /\ (p[1] \div 128) % 2 = 1)
              /\ OpensSector =>
                     /\ drv'.angle_deg_last = (p[1] % 128) + 128 * p[2]
                     /\ drv'.distance_m_last = p[3] + 256 * p[4]]_vars

\* C17: the validity test reads bits 0 and 1 of byte 0 and bit 0 of byte 1,
\* the angle is bits 1-7 of byte 1 with byte 2 above them, and the distance is
\* bytes 3-4, little-endian.
C17_CheckBitIsBit0 ==
    [][(ReadStep /\ CompletesPayload) =>
           LET p == CompletedPayload
           IN /\ drv'.ev.kind = "scan_ok" <=>
                     (p[0] % 2 # (p[0] \div 2) % 2 /\ p[1] % 2 = 1)
              /\ drv'.ev.kind \in {"scan_ok", "scan_bad"}
              /\ OpensSector =>
                     /\ drv'.angle_deg_last = (p[1] \div 2) + 128 * p[2]
                     /\ drv'.distance_m_last = p[3] + 256 * p[4]]_vars

\* A payload with bit 0 of byte 1 set and bit 7 clear was decoded, and its
\* angle (48 degrees and 1/64) and distance are the candidate.
C17_Witness ==
    /\ drv.ev.kind = "scan_ok"
    /\ drv.ev.commit # -1
    /\ drv.payload[1] = 3
    /\ drv.angle_deg_last = 48 * Q6 + 1
    /\ drv.distance_m_last = 1024

\* C18: in rp_responding a descriptor is begun only by the preamble: a byte
\* other than 0xA5 that arrives while the descriptor byte counter is 0 is not
\* stored and moves the decoder to rp_unknown, and whenever the counter goes
\* from 0 to 1 the byte stored at index 0 is 0xA5; on every visit.
C18_DescriptorStartsAtPreamble ==
    [][(ReadStep /\ drv.rp_state \in {rp_responding, rp_unknown} /\ drv.byte_count = 0)
       =>
           /\ (drv.rp_state = rp_responding /\ Head(rx) # RPLIDAR_PREAMBLE) =>
                  /\ drv'.rp_state = rp_unknown
                  /\ drv'.descriptor = drv.descriptor
                  /\ drv'.byte_count = 0
           /\ (drv'.rp_state = rp_responding /\ drv'.byte_count = 1) =>
                  drv'.descriptor[0] = RPLIDAR_PREAMBLE]_vars

\* Iteration k of the partitioning is the first one of its arc.
FirstOfArc(k) == k = 1 \/ drv.sector_steps[k - 1].arc # drv.sector_steps[k].arc

\* The remaining size of the arc of iteration k when its filling began.
RECURSIVE ArcSize(_)
ArcSize(k) == IF FirstOfArc(k) THEN drv.sector_steps[k].remaining ELSE ArcSize(k - 1)

\* C19: with r degrees of an arc remaining, a partitioning step makes a sector
\* of 45 if r >= 90, of floor(r/2) if 45 < r < 90 and of r if r <= 45, and the
\* next step of the arc goes on with r less that size, where the sector ends;
\* so an arc of at least 46 degrees gets no sector narrower than 23 degrees
\* (also when the maximum number of sectors cuts the arc short).
C19_GreedySectorSize ==
    \A k \in 1 .. Len(drv.sector_steps) :
        LET st == drv.sector_steps[k]
            r == st.remaining
        IN /\ r > 0
           /\ r >= 90 => st.size = 45
           /\ (r > 45 /\ r < 90) => (2 * st.size <= r /\ r < 2 * st.size + 2)
           /\ r <= 45 => st.size = r
           /\ drv.sector_width_deg[st.sector] = st.size
           /\ ~FirstOfArc(k) =>
                  /\ r = drv.sector_steps[k - 1].remaining - drv.sector_steps[k - 1].size
                  /\ st.start = drv.sector_steps[k - 1].start + drv.sector_steps[k - 1].size
           /\ ArcSize(k) >= 46 => st.size >= 23

\* An arc of 359 degrees came down to 89: sectors of 44 and then 45 degrees.
C19_Witness ==
    /\ Partitioned
    /\ Len(drv.sector_steps) = 8
    /\ drv.sector_steps[1].remaining = 359
    /\ drv.sector_steps[7].remaining = 89
    /\ drv.sector_steps[7].size = 44
    /\ drv.sector_steps[8].size = 45

\* This step decodes a valid scan sample that maps to a sector.
SectorSample ==
    /\ ReadStep /\ CompletesPayload
    /\ startbit(CompletedPayload) # not_startbit(CompletedPayload)
    /\ checkbit(CompletedPayload) = 1
    /\ convert_angle_to_sector(drv, angle_q6(CompletedPayload)) # -1

\* The sector of the sample of this step.
SampleSector == convert_angle_to_sector(drv, angle_q6(CompletedPayload))

\* This step decodes a valid in-range sample for a sector other than the open one.
SectorChange ==
    /\ SectorSample
    /\ distance_q2(CompletedPayload) > DISTANCE_MIN_Q2
    /\ SampleSector # drv.last_sector

\* A valid in-range sample for the open sector changes no committed entry,
\* keeps the open sector and at most lowers its candidate.
SameSectorSampleKeepsEntries ==
    (/\ SectorSample
     /\ distance_q2(CompletedPayload) > DISTANCE_MIN_Q2
     /\ SampleSector = drv.last_sector)
    =>
        /\ CommittedUnchanged
        /\ drv'.last_sector = drv.last_sector
        /\ drv'.distance_m_last <= drv.distance_m_last
        /\ drv'.distance_m_last \in {drv.distance_m_last, distance_q2(CompletedPayload)}

\* On a sector change only the entry of the sector that was open is written.
OnlyPreviousEntryWritten ==
    /\ SectorChange
    /\ drv'.last_sector = SampleSector
    /\ \A i \in SectorIdx \ {drv.last_sector} :
           /\ drv'.distance[i] = drv.distance[i]
           /\ drv'.angle[i] = drv.angle[i]
           /\ drv'.distance_valid[i] = drv.distance_valid[i]

\* C20 as stated: a valid in-range sample for the open sector modifies no
\* committed distance, angle or valid flag and can only lower the candidate;
\* any step that modifies a committed distance, angle or valid flag is a sector
\* change, and it writes only the entry of the previously open sector, never
\* that of the newly opened one.
C20_EntriesWrittenOnlyOnSectorChange ==
    [][/\ SameSectorSampleKeepsEntries
       /\ ~CommittedUnchanged => OnlyPreviousEntryWritten]_vars

\* C20 amended: a valid in-range sample for the open sector modifies no
\* committed distance, angle or valid flag and can only lower the candidate;
\* any step that modifies a committed distance or angle or sets a valid flag is
\* a sector change, and it writes only the entry of the previously open sector,
\* never that of the newly opened one; the only other write to an entry is a
\* dead-zone sample clearing the valid flag of its sector.
C20_CommitsOnlyOnSectorChange ==
    [][/\ SameSectorSampleKeepsEntries
       /\ (\/ drv'.distance # drv.distance
           \/ drv'.angle # drv.angle
           \/ \E i \in SectorIdx : drv'.distance_valid[i] /\ ~drv.distance_valid[i])
          => OnlyPreviousEntryWritten
       /\ (\E i \in SectorIdx : ~drv'.distance_valid[i] /\ drv.distance_valid[i])
          =>
              /\ SectorSample
              /\ distance_q2(CompletedPayload) <= DISTANCE_MIN_Q2
              /\ drv'.distance_valid = [drv.distance_valid EXCEPT ![SampleSector] = FALSE]
              /\ drv'.distance = drv.distance
              /\ drv'.angle = drv.angle]_vars

\* An in-range sample has lowered the candidate of the open sector while the
\* entry committed for that sector in an earlier dwell still holds a larger distance.
C20_Witness ==
    /\ drv.ev.kind = "scan_ok"
    /\ drv.ev.sector = drv.last_sector
    /\ drv.ev.commit = -1
    /\ distance_q2(drv.payload) > DISTANCE_MIN_Q2
    /\ drv.distance_m_last = distance_q2(drv.payload)
    /\ drv.distance_valid[drv.last_sector]
    /\ drv.distance[drv.last_sector] > drv.distance_m_last

\* A call of update() begins: initialise() if need be, then the read loop.
UpdateCall == pc = "idle" /\ pc' = "reading"

\* C21: no byte is read before the sector table is initialised and the reset
\* command is sent.  The first call of update() only runs init_sectors and
\* reads nothing; the second one sends exactly one reset command and puts the
\* decoder in rp_resetted before its read loop starts; a later call runs
\* neither init_sectors nor the initial reset again.
C21_InitialisationOrder ==
    /\ [](/\ (pc = "reading" /\ nbytes > 0) =>
                 drv.sector_initialised /\ drv.initialised /\ drv.resetted
          /\ ~drv.initialised =>
                 /\ drv.rp_state = rp_unknown /\ ~drv.resetted
                 /\ drv.tx = <<>> /\ drv.ev = NoEvent)
    /\ [][UpdateCall =>
             /\ rx' = rx
             /\ ~drv.sector_initialised =>
                    /\ drv'.sector_initialised /\ ~drv'.initialised
                    /\ drv'.tx = <<>> /\ ~drv'.resetted
                    /\ drv'.rp_state = drv.rp_state
                    /\ nbytes' = 0
             /\ (drv.sector_initialised /\ ~drv.initialised) =>
                    /\ drv' = [drv EXCEPT !.tx = <<RPLIDAR_PREAMBLE, RPLIDAR_CMD_RESET>>,
                                          !.resetted = TRUE,
                                          !.last_reset_ms = now,
                                          !.rp_state = rp_resetted,
                                          !.initialised = TRUE]
                    /\ nbytes' = Len(rx)
             /\ drv.initialised =>
                    /\ drv' = drv
                    /\ nbytes' = Len(rx)]_vars

\* The second call of update() has sent the reset command and is about to read
\* the first of the bytes that arrived before it.
C21_Witness ==
    /\ pc = "reading"
    /\ nbytes > 0 /\ nbytes = Len(rx)
    /\ drv.tx = <<RPLIDAR_PREAMBLE, RPLIDAR_CMD_RESET>>
    /\ drv.rp_state = rp_resetted
    /\ drv.ev = NoEvent
    /\ drv.last_reset_ms = now

\* The kinds of event that are a descriptor classification or a payload decode.
ClassifyEvents == {"descriptor"}
DecodeEvents == {"scan_ok", "scan_bad", "health"}

\* C22: one byte is dispatched once, or twice when it is a preamble met in
\* rp_unknown (the second time in rp_responding); it triggers at most one of
\* descriptor classification, payload decode, reset command and scan-mode
\* request.  A call of get_readings takes the bytes off the UART one by one
\* from the head, and returns when it has read as many as were available when
\* it started.
C22_OneActionPerByte ==
    /\ [](/\ (pc = "reading" /\ drv.initialised) => nbytes = Len(rx)
          /\ drv.dispatches \in 0 .. 2
          /\ drv.tx \in {<<>>, <<RPLIDAR_PREAMBLE, RPLIDAR_CMD_RESET>>,
                         <<RPLIDAR_PREAMBLE, RPLIDAR_CMD_SCAN>>})
    /\ [][/\ ReadStep =>
                 /\ rx' = Tail(rx)
                 /\ drv'.dispatches \in {1, 2}
                 /\ drv'.dispatches = 2 =>
                        /\ drv.rp_state = rp_unknown
                        /\ Head(rx) = RPLIDAR_PREAMBLE
                        /\ drv'.ev.kind \in {"descriptor", "descriptor_byte"}
                 /\ drv'.tx # <<>> => drv'.ev.kind \notin (ClassifyEvents \cup DecodeEvents)
                 /\ drv'.ev.kind \in ClassifyEvents =>
                        /\ drv.rp_state \in {rp_responding, rp_unknown}
                        /\ drv.byte_count + 1 = DESCRIPTOR_SIZE
                        /\ drv'.sync_error = drv.sync_error
                        /\ CommittedUnchanged /\ OpenSectorUnchanged
                 /\ drv'.ev.kind \in DecodeEvents =>
                        /\ drv.rp_state = rp_measurements
                        /\ drv'.rp_state = rp_measurements
                        /\ drv'.response_type = drv.response_type
                        /\ drv'.descriptor = drv.descriptor
          /\ (pc = "reading" /\ pc' = "idle") =>
                 /\ nbytes = 0
                 /\ drv.initialised => rx = <<>>]_vars

\* A preamble met in rp_unknown has been dispatched a second time and stored as
\* the first byte of a descriptor; six bytes of the call are still to be read.
C22_Witness ==
    /\ pc = "reading"
    /\ drv.dispatches = 2
    /\ drv.rp_state = rp_responding
    /\ drv.byte_count = 1
    /\ drv.descriptor[0] = RPLIDAR_PREAMBLE
    /\ nbytes = 6 /\ Len(rx) = 6

\* This step decodes a valid scan sample.
ValidSample ==
    /\ ReadStep /\ CompletesPayload
    /\ startbit(CompletedPayload) # not_startbit(CompletedPayload)
    /\ checkbit(CompletedPayload) = 1

\* This step decodes a valid sample of the front window at 0.5 m or more.
FrontHit ==
    /\ ValidSample
    /\ angle_q6(CompletedPayload) >= 270 * Q6
    /\ angle_q6(CompletedPayload) <= 360 * Q6
    /\ distance_q2(CompletedPayload) >= FRONT_RANGE_Q2

\* The first-hit and the last-hit ray of the front sweep.
FirstHit(s) == <<s.angle_left_front, s.distant_left_front>>
LastHit(s) == <<s.angle_right_front, s.distant_right_front>>

\* What C23 says of the rays and of the far sentinel.
FrontRaysTracked ==
    /\ FrontHit =>
           /\ LastHit(drv') = <<angle_q6(CompletedPayload), distance_q2(CompletedPayload)>>
           /\ drv'.point_front_find = 1
           /\ FirstHit(drv') = IF drv.point_front_find = 0
                               THEN <<angle_q6(CompletedPayload), distance_q2(CompletedPayload)>>
                               ELSE FirstHit(drv)
    /\ ~FrontHit =>
           /\ FirstHit(drv') = FirstHit(drv)
           /\ LastHit(drv') = LastHit(drv)
           /\ drv.point_front_find = 0 => drv'.point_front_find = 0
    /\ (ValidSample /\ angle_q6(CompletedPayload) < 60 * Q6 /\ drv.point_front_find = 0) =>
           drv'.distance_object_front = FAR_SENTINEL

\* C23 as stated: among the valid samples in [270, 360] degrees at 0.5 m or
\* more, the first one after the flag was cleared sets the first-hit ray and
\* the flag, the first-hit ray stays while the flag is set, and the last-hit
\* ray is the most recent such sample; the flag is cleared only by a valid
\* sample in [60, 270) degrees; a sample below 60 degrees that finds the flag
\* clear sets the front clearance to the far sentinel 133.
C23_FlagClearedOnlyIn60To270 ==
    [][/\ FrontRaysTracked
       /\ (drv.point_front_find # 0 /\ drv'.point_front_find = 0) =>
              /\ ValidSample
              /\ angle_q6(CompletedPayload) >= 60 * Q6
              /\ angle_q6(CompletedPayload) < 270 * Q6]_vars

\* C23 amended: the same, the flag being cleared only by a valid sample in
\* [60, 270) degrees or above 360 degrees.
C23_FlagClearedOutsideWindow ==
    [][/\ FrontRaysTracked
       /\ (drv.point_front_find # 0 /\ drv'.point_front_find = 0) =>
              /\ ValidSample
              /\ \/ /\ angle_q6(CompletedPayload) >= 60 * Q6
                    /\ angle_q6(CompletedPayload) < 270 * Q6
                 \/ angle_q6(CompletedPayload) > 360 * Q6
       /\ (/\ ValidSample
           /\ \/ /\ angle_q6(CompletedPayload) >= 60 * Q6
                 /\ angle_q6(CompletedPayload) < 270 * Q6
              \/ angle_q6(CompletedPayload) > 360 * Q6) =>
              drv'.point_front_find = 0]_vars

\* Two hits of the front window since the flag was cleared: the first-hit ray
\* is still the first one, the last-hit ray is the one just decoded.
C23_Witness ==
    /\ drv.ev.kind = "scan_ok"
    /\ drv.point_front_find = 1
    /\ FirstHit(drv) # LastHit(drv)
    /\ LastHit(drv) = <<angle_q6(drv.payload), distance_q2(drv.payload)>>
    /\ \E i \in SectorIdx : drv.distance_valid[i]

\* C24: the sync-error count is 0 or 1 in every reachable state.  It goes up
\* only, and by one, when a completed scan payload is rejected; while it is
\* non-zero no byte completes a payload; it returns to 0 only on a byte with
\* low two bits 01 read in rp_measurements.
C24_SyncErrorAtMostOne ==
    /\ [](drv.sync_error \in {0, 1})
    /\ [][/\ drv'.sync_error > drv.sync_error =>
                 /\ ReadStep /\ CompletesPayload
                 /\ \/ startbit(CompletedPayload) = not_startbit(CompletedPayload)
                    \/ checkbit(CompletedPayload) = 0
                 /\ drv'.sync_error = drv.sync_error + 1
          /\ (ReadStep /\ drv.sync_error # 0) =>
                 /\ drv'.ev.kind \notin {"scan_ok", "scan_bad", "health"}
                 /\ drv.rp_state = rp_measurements =>
                        /\ drv'.byte_count \in {drv.byte_count, drv.byte_count + 1}
                        /\ drv'.byte_count < drv.payload_length
                        /\ drv'.sync_error # 0 => drv'.payload = drv.payload
          /\ drv'.sync_error < drv.sync_error =>
                 /\ ReadStep
                 /\ drv.rp_state = rp_measurements
                 /\ Head(rx) % 4 = 1
                 /\ drv'.sync_error = 0]_vars

\* A revolution-start byte has just cleared the sync error left by a rejected
\* payload and is the first byte of the next payload.
C24_Witness ==
    /\ drv.ev.kind = "resync"
    /\ drv.sync_error = 0
    /\ drv.rp_state = rp_measurements
    /\ drv.byte_count = 1
    /\ drv.payload[0] % 4 = 1

\* The branches of get_readings that store the byte, by buffer.
InfoStores == {"info"}
DescriptorStores == {"descriptor", "descriptor_byte"}
PayloadStores == {"payload_byte", "resync", "scan_ok", "scan_bad", "health"}

\* C25: every buffer write is in bounds: _byte_count is below 62 when a
\* device-info byte is stored, below 7 when a descriptor byte is stored and
\* below 5 when a payload byte is stored.  _byte_count is 0 at every change of
\* _rp_state (a preamble that takes the decoder from rp_unknown to
\* rp_responding finds it 0 and is stored as byte 0), and _payload_length is 5
\* whenever the decoder is in rp_measurements.
C25_BufferIndexInBounds ==
    /\ [](/\ drv.rp_state = rp_measurements =>
                 drv.payload_length = SCAN_PAYLOAD_SIZE /\ drv.byte_count < SCAN_PAYLOAD_SIZE
          /\ drv.rp_state = rp_responding => drv.byte_count < DESCRIPTOR_SIZE
          /\ drv.rp_state = rp_resetted => drv.byte_count <= SYSTEMINFO_MAX
          /\ drv.rp_state \in {rp_unknown, rp_health} => drv.byte_count = 0)
    /\ [][/\ ReadStep =>
                 /\ drv'.ev.kind \in InfoStores =>
                        /\ drv.byte_count < SYSTEMINFO_MAX
                        /\ drv.byte_count \in DOMAIN drv.rp_systeminfo
                        /\ drv'.rp_systeminfo[drv.byte_count] = Head(rx)
                 /\ drv'.ev.kind \in DescriptorStores =>
                        /\ drv.byte_count < DESCRIPTOR_SIZE
                        /\ drv.byte_count \in DOMAIN drv.descriptor
                        /\ drv'.descriptor[drv.byte_count] = Head(rx)
                 /\ drv'.ev.kind \in PayloadStores =>
                        /\ drv.byte_count < SCAN_PAYLOAD_SIZE
                        /\ drv.byte_count \in DOMAIN drv.payload
                        /\ drv'.payload[drv.byte_count] = Head(rx)
                 /\ drv'.ev.kind \notin (InfoStores \cup DescriptorStores \cup PayloadStores) =>
                        /\ drv'.rp_systeminfo = drv.rp_systeminfo
                        /\ drv'.descriptor = drv.descriptor
                        /\ drv'.payload = drv.payload
          /\ drv'.rp_state # drv.rp_state =>
                 IF drv.rp_state = rp_unknown /\ drv'.rp_state = rp_responding
                 THEN drv.byte_count = 0 /\ drv'.byte_count = 1
                 ELSE drv'.byte_count = 0]_vars

\* The 63rd byte of a device-info block has ended it: 62 bytes are stored, the
\* last of them at index 61, and the decoder has changed state with the count at 0.
C25_Witness ==
    /\ drv.ev.kind = "info_done"
    /\ drv.rp_state = rp_responding
    /\ drv.byte_count = 0
    /\ drv.rp_systeminfo[0] = RPLIDAR_CMD_GET_DEVICE_HEALTH
    /\ drv.rp_systeminfo[SYSTEMINFO_MAX - 1] # 0
    /\ drv.rp_systeminfo[SYSTEMINFO_MAX] = 0

\* This step writes the command cmd to the UART.
Sends(cmd) ==
    \/ ReadStep /\ drv'.tx = cmd
    \/ UpdateCall /\ ~drv.initialised /\ drv'.tx = cmd

\* C26: the decoder writes nothing to the UART but the reset command A5 40
\* and the scan-mode request A5 20; the command before a scan-mode request is
\* always a reset command, and a scan-mode request is sent only by a byte read
\* in rp_resetted.
C26_CommandOrder ==
    /\ [](/\ drv.tx \in {<<>>, <<165, 64>>, <<165, 32>>}
          /\ \A i \in 1 .. Len(hist.cmds) :
                 /\ hist.cmds[i] \in {64, 32}
                 /\ (hist.cmds[i] = 32 /\ i > 1) => hist.cmds[i - 1] = 64
                 /\ (hist.cmds[i] = 32 /\ i = 1) => Len(hist.cmds) = 2)
    /\ [][/\ Sends(<<165, 32>>) =>
                 /\ ReadStep
                 /\ drv.rp_state = rp_resetted
                 /\ hist.cmds # <<>>
                 /\ hist.cmds[Len(hist.cmds)] = 64
                 /\ hist'.cmds[Len(hist'.cmds)] = 32
          /\ Sends(<<165, 64>>) => hist'.cmds[Len(hist'.cmds)] = 64
          /\ hist'.cmds # hist.cmds => (Sends(<<165, 32>>) \/ Sends(<<165, 64>>))
          /\ (ReadStep /\ drv'.tx = <<>>) => hist'.cmds = hist.cmds]_vars

\* After an earlier scan-mode request and a descriptor, a reset command has
\* been followed by a device-info block and the scan-mode request that ends it.
C26_Witness ==
    /\ hist.cmds = <<64, 32>>
    /\ drv.last_request_ms # 0
    /\ drv.ev.kind = "info_done"
    /\ drv.descriptor_data
    /\ drv.tx = <<165, 32>>
    /\ drv.rp_state = rp_responding

ResetWrites == {"rp_state", "resetted", "last_reset_ms"}
ByteRecord == {"tx", "ev", "dispatches"}

\* C28: a step that issues the reset command sets _rp_state to rp_resetted,
\* the reset flag and the reset timestamp and changes nothing else of the
\* decoder: not the sync-error count, the byte count, the descriptor flag, the
\* open sector and its candidate or a committed entry, and not the retry count
\* either, except that case rp_unknown, which counts its byte before the call,
\* zeroes the count after it.  The sync-error count does not change outside
\* rp_measurements, so after a resync-timeout reset it is still set when the
\* decoder is in rp_measurements again.
C28_ResetFrame ==
    [][/\ Sends(<<165, 64>>) =>
              /\ drv'.rp_state = rp_resetted
              /\ drv'.resetted
              /\ drv'.last_reset_ms = now
              /\ \A f \in DOMAIN drv \ (ResetWrites \cup ByteRecord \cup {"cnt", "initialised"}) :
                     drv'[f] = drv[f]
              /\ drv'.cnt = IF drv.rp_state = rp_unknown /\ drv.initialised THEN 0 ELSE drv.cnt
              /\ drv.rp_state = rp_measurements => drv'.sync_error # 0
       /\ (drv.rp_state # rp_measurements \/ drv'.rp_state # rp_measurements) =>
              drv'.sync_error = drv.sync_error]_vars

\* After a resync-timeout reset a scan descriptor has put the decoder in
\* rp_measurements again, the sync error still set.
C28_Witness ==
    /\ drv.rp_state = rp_measurements
    /\ drv.ev.kind = "descriptor"
    /\ drv.sync_error = 1
    /\ drv.last_reset_ms > StartMillis
    /\ hist.cmds[Len(hist.cmds)] = 64

\* The (distance, angle) pairs of the scan payloads the device sends in the
\* aggregation runs.
SentSamples ==
    {<<distance_q2(p), angle_q6(p)>> :
        p \in {[i \in 0 .. 4 |-> f[i + 1]] :
                 f \in {g \in ScanFrames : Len(g) = SCAN_PAYLOAD_SIZE}}}

\* C29: every sector whose valid flag is set holds a committed distance above
\* distance_min that is the distance of a sample, paired with that sample's angle.
C29_ValidEntryIsASample ==
    \A i \in SectorIdx :
        drv.distance_valid[i] =>
            /\ drv.distance[i] > DISTANCE_MIN_Q2
            /\ <<drv.distance[i], drv.angle[i]>> \in SentSamples

====
